---- MODULE Spec2Model ----
(***************************************************************************)
(* Model of music_for_dummies: the analysis producer                       *)
(* generateMockAnalysis (frontend/src/utils/mockData.ts), the store        *)
(* (frontend/src/store/useStore.ts), the upload and polling of             *)
(* UploadScreen.handleFile and the handlers of PDFViewer, Overlay and      *)
(* Sidebar.                                                                *)
(*                                                                         *)
(* Specifications                                                          *)
(*  - Spec:    the producer alone, called on a file name;                  *)
(*  - SpecApp:  the store, one upload with its whole polling chain, the    *)
(*              fallback and reset;                                        *)
(*  - SpecRace: SpecApp with MaxUploads uploads and MaxPolls polls;        *)
(*  - SpecUI:   one upload, MaxPolls polls and the UI handlers.            *)
(*                                                                         *)
(* Representation                                                          *)
(*  - fractions of the page (bounding boxes) are integers in hundredths:   *)
(*    0.22 is 22, 0.06 is 6;                                               *)
(*  - Math.random() returns r in [0,1); r is an integer in thousandths     *)
(*    (0..999); a confidence is an integer in units of 1/100000, so that   *)
(*    0.85 + r * 0.15 is 85000 + r * 15 and 1.0 is 100000;                 *)
(*  - a Roman numeral is the sequence of its characters, <<"v","i","7">>   *)
(*    for 'vi7', so that its case and its suffix can be inspected;         *)
(*  - the reasoning text is the sequence of its words and punctuation;     *)
(*  - a template string `chord-${i}` is the tuple of its parts.            *)
(***************************************************************************)
EXTENDS Integers, Sequences, FiniteSets, TLC

VARIABLES
  filename,   \* the argument of generateMockAnalysis (file.name)
  now,        \* the wall clock read by Date.now()
  result      \* the AnalysisResult last produced, or NoResult

\* The store (AppState of useStore.ts)
VARIABLES
  pdfFile, pdfUrl, currentPage, totalPages, scale,
  analysis, isAnalyzing, analysisProgress,
  hoverTarget, selectedMeasure, showSidebar, currentKey

VARIABLES
  uploads,         \* one entry per accepted handleFile call: its closure
                   \* (file, attempts) and where its async chain stands
  documentLoaded,  \* react-pdf's Document has loaded pdfUrl
  uploadsLeft,     \* handleFile calls the behaviour may still accept
  pollsLeft,       \* getAnalysis calls the behaviour may still make
                   \* (-1: as many as the code makes)
  uiEventsLeft     \* UI events the behaviour may still take

genVars == <<filename, now, result>>
storeVars ==
  <<pdfFile, pdfUrl, currentPage, totalPages, scale, analysis, isAnalyzing,
    analysisProgress, hoverTarget, selectedMeasure, showSidebar, currentKey>>
appVars ==
  <<storeVars, uploads, documentLoaded, uploadsLeft, pollsLeft, uiEventsLeft>>
vars == <<genVars, appVars>>

(***************************************************************************)
(* Bounds                                                                  *)
(***************************************************************************)
MaxClock == 1          \* the clock takes the values 0..MaxClock
RandomLevels == 2      \* number of sampled outcomes of one Math.random() call
MaxUploads == 2        \* handleFile calls accepted in a behaviour of SpecRace
MaxPolls == 4          \* getAnalysis calls in a behaviour of SpecRace or SpecUI
MaxUiEvents == 2       \* UI events in a behaviour of SpecUI

\* null of the store's nullable fields
Null == [null |-> TRUE]

Filenames == {"a.pdf", "b.pdf"}

\* Sampled outcomes of Math.random(), in thousandths: 0 up to 999 (r < 1).
RandomValues == {(k * 999) \div (RandomLevels - 1) : k \in 0..(RandomLevels - 1)}

NoResult == [status |-> "none"]

(***************************************************************************)
(* generateMockAnalysis: the constant tables                               *)
(***************************************************************************)
\* Mutant of globalKey: C major written with one sharp.
globalKey_oneSharp == [tonic |-> "C", mode |-> "major", signature |-> 1]

globalKey == [tonic |-> "C", mode |-> "major", signature |-> 0]

chordC ==
  [symbol |-> "C", root |-> "C", quality |-> "maj", notes |-> <<"C", "E", "G">>,
   roman |-> <<"I">>, func |-> "tonic"]
chordG ==
  [symbol |-> "G", root |-> "G", quality |-> "maj", notes |-> <<"G", "B", "D">>,
   roman |-> <<"V">>, func |-> "dominant"]
chordAm ==
  [symbol |-> "Am", root |-> "A", quality |-> "m", notes |-> <<"A", "C", "E">>,
   roman |-> <<"v", "i">>, func |-> "tonic"]
chordF ==
  [symbol |-> "F", root |-> "F", quality |-> "maj", notes |-> <<"F", "A", "C">>,
   roman |-> <<"I", "V">>, func |-> "predominant"]
chordG7 ==
  [symbol |-> "G7", root |-> "G", quality |-> "7", notes |-> <<"G", "B", "D", "F">>,
   roman |-> <<"V", "7">>, func |-> "dominant"]
chordDm7 ==
  [symbol |-> "Dm7", root |-> "D", quality |-> "m7", notes |-> <<"D", "F", "A", "C">>,
   roman |-> <<"i", "i", "7">>, func |-> "predominant"]
chordCmaj7 ==
  [symbol |-> "Cmaj7", root |-> "C", quality |-> "maj7", notes |-> <<"C", "E", "G", "B">>,
   roman |-> <<"I", "m", "a", "j", "7">>, func |-> "tonic"]
chordAm7 ==
  [symbol |-> "Am7", root |-> "A", quality |-> "m7", notes |-> <<"A", "C", "E", "G">>,
   roman |-> <<"v", "i", "7">>, func |-> "tonic"]

\* Mutant of chordProgressions: the G chord of the pop progression is
\* labelled tonic instead of dominant.
chordProgressions_wrongFunction ==
  << <<chordC, [chordG EXCEPT !.func = "tonic"], chordAm, chordF>>,
     <<chordC, chordF, chordG7, chordC>>,
     <<chordDm7, chordG7, chordCmaj7, chordAm7>>,
     <<chordC, chordAm, chordF, chordG>> >>

\* Mutant of chordProgressions: the A minor chord of the 50s progression is
\* written with an upper-case numeral.
chordProgressions_wrongCase ==
  << <<chordC, chordG, chordAm, chordF>>,
     <<chordC, chordF, chordG7, chordC>>,
     <<chordDm7, chordG7, chordCmaj7, chordAm7>>,
     <<chordC, [chordAm EXCEPT !.roman = <<"V", "I">>], chordF, chordG>> >>

chordProgressions ==
  << <<chordC, chordG, chordAm, chordF>>,          \* I - V - vi - IV (Pop)
     <<chordC, chordF, chordG7, chordC>>,          \* I - IV - V - I (Classic)
     <<chordDm7, chordG7, chordCmaj7, chordAm7>>,  \* ii - V - I (Jazz)
     <<chordC, chordAm, chordF, chordG>> >>        \* I - vi - IV - V (50s)

numMeasures == 16

(***************************************************************************)
(* Math.random(): one draw per loop iteration i in 0..numMeasures-1.       *)
(* Every call can return every sampled value; the draw vectors explored    *)
(* are those in which at most one call differs from the others.            *)
(***************************************************************************)
RandomDraws ==
  {[i \in 0..(numMeasures - 1) |-> IF i = p THEN v ELSE b] :
      b \in RandomValues, v \in RandomValues, p \in 0..(numMeasures - 1)}

(***************************************************************************)
(* generateMockAnalysis: the loop body for index i                          *)
(***************************************************************************)
progression(i) == chordProgressions[((i \div 4) % Len(chordProgressions)) + 1]
chordData(i) == progression(i)[(i % 4) + 1]

\* Mutant of measureX: the column step is 0.32 instead of 0.22.
measureX_wide(i) == (i % 4) * 32 + 6

measureX(i) == (i % 4) * 22 + 6
measureY(i) == (i \div 4) * 18 + 15

\* Mutant of confidence: the random part is scaled by 0.5 instead of 0.15.
confidence_wide(r) == 85000 + r * 50

\* confidence: 0.85 + Math.random() * 0.15
confidence(r) == 85000 + r * 15

chord(i, r) ==
  [id |-> <<"chord-", i>>,
   symbol |-> chordData(i).symbol,
   root |-> chordData(i).root,
   quality |-> chordData(i).quality,
   notes |-> chordData(i).notes,
   boundingBox |-> [x |-> measureX(i) + 2, y |-> measureY(i) + 2,
                    width |-> 16, height |-> 12],
   romanNumeral |-> chordData(i).roman,
   function |-> chordData(i).func,
   confidence |-> confidence(r),
   beatPosition |-> 1]

beatNotes(i) ==
  [idx \in 1..Len(chordData(i).notes) |->
     [pitch |-> <<chordData(i).notes[idx], "4">>,
      duration |-> "quarter",
      boundingBox |-> [x |-> measureX(i) + 2 + (idx - 1) * 4,
                       y |-> measureY(i) + 4,
                       width |-> 3, height |-> 8]]]

\* Mutant of measure: the number restarts on every row of 4 measures.
measure_rowNumber(i, r) ==
  [number |-> (i % 4) + 1,
   boundingBox |-> [x |-> measureX(i), y |-> measureY(i),
                    width |-> 20, height |-> 16],
   beats |-> << [number |-> 1, notes |-> beatNotes(i), chord |-> chord(i, r)] >>,
   localKey |-> globalKey,
   chords |-> << chord(i, r) >>,
   timeSignature |-> [numerator |-> 4, denominator |-> 4]]

measure(i, r) ==
  [number |-> i + 1,
   boundingBox |-> [x |-> measureX(i), y |-> measureY(i),
                    width |-> 20, height |-> 16],
   beats |-> << [number |-> 1, notes |-> beatNotes(i), chord |-> chord(i, r)] >>,
   localKey |-> globalKey,
   chords |-> << chord(i, r) >>,
   timeSignature |-> [numerator |-> 4, denominator |-> 4]]

\* The array built by the loop; measures[k] of the code is measures(rnd)[k+1].
measures(rnd) == [k \in 1..numMeasures |-> measure(k - 1, rnd[k - 1])]

(***************************************************************************)
(* generateMockAnalysis: the modulation, the page and the returned value   *)
(***************************************************************************)
reasoning ==
  <<"The", "G", "major", "chord", "(", "V", "in", "C", ")", "becomes", "I",
    "in", "the", "new", "key", "of", "G", "major", ".",
    "This", "is", "a", "common", "pivot", "chord", "modulation", "to", "the",
    "dominant", "key", ".">>

\* Mutant of modulation: the key change is reported at measure 2.
modulation_early(ms) ==
  [measureNumber |-> 2,
   fromKey |-> [tonic |-> "C", mode |-> "major", signature |-> 0],
   toKey |-> [tonic |-> "G", mode |-> "major", signature |-> 1],
   pivotChord |-> ms[2].chords[1],
   reasoning |-> reasoning,
   boundingBox |-> [x |-> 6, y |-> 51, width |-> 88, height |-> 2]]

\* Mutant of modulation: the pivot is taken from measures[3] (the F chord).
modulation_farPivot(ms) ==
  [measureNumber |-> 9,
   fromKey |-> [tonic |-> "C", mode |-> "major", signature |-> 0],
   toKey |-> [tonic |-> "G", mode |-> "major", signature |-> 1],
   pivotChord |-> ms[4].chords[1],
   reasoning |-> reasoning,
   boundingBox |-> [x |-> 6, y |-> 51, width |-> 88, height |-> 2]]

\* Mutant of modulation: fromKey is written as the new key.
modulation_sameKey(ms) ==
  [measureNumber |-> 9,
   fromKey |-> [tonic |-> "G", mode |-> "major", signature |-> 1],
   toKey |-> [tonic |-> "G", mode |-> "major", signature |-> 1],
   pivotChord |-> ms[8].chords[1],
   reasoning |-> reasoning,
   boundingBox |-> [x |-> 6, y |-> 51, width |-> 88, height |-> 2]]

\* measures[7].chords[0] of the code is ms[8].chords[1].
modulation(ms) ==
  [measureNumber |-> 9,
   fromKey |-> [tonic |-> "C", mode |-> "major", signature |-> 0],
   toKey |-> [tonic |-> "G", mode |-> "major", signature |-> 1],
   pivotChord |-> ms[8].chords[1],
   reasoning |-> reasoning,
   boundingBox |-> [x |-> 6, y |-> 51, width |-> 88, height |-> 2]]

page(ms) == [pageNumber |-> 1, measures |-> ms]

\* Mutant of romanNumerals: the 7th and 8th entries are exchanged.
romanNumerals_swapped ==
  << <<"I">>, <<"V">>, <<"v", "i">>, <<"I", "V">>,
     <<"I">>, <<"I", "V">>, <<"I">>, <<"V", "7">>,
     <<"i", "i", "7">>, <<"V", "7">>, <<"I", "m", "a", "j", "7">>, <<"v", "i", "7">>,
     <<"I">>, <<"v", "i">>, <<"I", "V">>, <<"V">> >>

\* chordProgression.romanNumerals: the literal list of the return statement.
romanNumerals ==
  << <<"I">>, <<"V">>, <<"v", "i">>, <<"I", "V">>,
     <<"I">>, <<"I", "V">>, <<"V", "7">>, <<"I">>,
     <<"i", "i", "7">>, <<"V", "7">>, <<"I", "m", "a", "j", "7">>, <<"v", "i", "7">>,
     <<"I">>, <<"v", "i">>, <<"I", "V">>, <<"V">> >>

\* generateMockAnalysis(filename), with the outcomes of its Math.random()
\* calls (rnd) and of its Date.now() call (clock) made explicit.
generateMockAnalysis(fname, rnd, clock) ==
  [id |-> <<"analysis-", clock>>,
   filename |-> fname,
   pages |-> << page(measures(rnd)) >>,
   globalKey |-> globalKey,
   modulations |-> << modulation(measures(rnd)) >>,
   chordProgression |->
     [romanNumerals |-> romanNumerals,
      commonName |-> "Mixed progressions (Pop, Classic, Jazz, 50s)"],
   status |-> "completed"]

(***************************************************************************)
(* The state machine: a file name is given, the clock runs, and the        *)
(* producer is called (again and again: a re-analysis replaces the result).*)
(***************************************************************************)
\* initialState of the store
initialState ==
  /\ pdfFile = Null
  /\ pdfUrl = Null
  /\ currentPage = 1
  /\ totalPages = 0
  /\ scale = 100
  /\ analysis = Null
  /\ isAnalyzing = FALSE
  /\ analysisProgress = 0
  /\ hoverTarget = Null
  /\ selectedMeasure = Null
  /\ showSidebar = TRUE
  /\ currentKey = Null

\* The application as it starts: the store in initialState, no upload.
InitStore ==
  /\ initialState
  /\ uploads = <<>>
  /\ documentLoaded = FALSE

Init ==
  /\ filename \in Filenames
  /\ now = 0
  /\ result = NoResult
  /\ InitStore
  /\ uploadsLeft = 0
  /\ pollsLeft = 0
  /\ uiEventsLeft = 0

\* Time passes between two reads of Date.now().
ClockTick ==
  /\ now < MaxClock
  /\ now' = now + 1
  /\ UNCHANGED <<filename, result, appVars>>

\* One call of generateMockAnalysis(filename).
Analyze ==
  /\ \E rnd \in RandomDraws : result' = generateMockAnalysis(filename, rnd, now)
  /\ UNCHANGED <<filename, now, appVars>>

Next == ClockTick \/ Analyze

Spec == Init /\ [][Next]_vars

(***************************************************************************)
(* The store's actions (useStore.ts) used by the upload chain.             *)
(***************************************************************************)
\* setAnalysis: analysis, and currentKey: analysis?.globalKey || null
setAnalysis(a) ==
  /\ analysis' = a
  /\ currentKey' = IF "globalKey" \in DOMAIN a THEN a.globalKey ELSE Null

\* reset: set(initialState)
reset ==
  /\ pdfFile' = Null
  /\ pdfUrl' = Null
  /\ currentPage' = 1
  /\ totalPages' = 0
  /\ scale' = 100
  /\ analysis' = Null
  /\ isAnalyzing' = FALSE
  /\ analysisProgress' = 0
  /\ hoverTarget' = Null
  /\ selectedMeasure' = Null
  /\ showSidebar' = TRUE
  /\ currentKey' = Null

(***************************************************************************)
(* The environment: the files a user may pick and what the backend may     *)
(* answer.  Progress is in units of 1/600: 0.2 is 120 and                  *)
(* 0.2 + (attempts / 60) * 0.7 is 120 + attempts * 7.                      *)
(***************************************************************************)
pdfType == "application/pdf"

AppFiles ==
  {[name |-> "a.pdf", type |-> pdfType, numPages |-> 2],
   [name |-> "b.pdf", type |-> pdfType, numPages |-> 1],
   [name |-> "c.txt", type |-> "text/plain", numPages |-> 0]}

\* What GET /api/analysis/{id} may return with status 'completed' for the
\* upload with that id: an analysis of the file's pages, one without
\* pages, or a one-page analysis of a single measure holding four chords
\* (C, G, Am, F).
BackendResults(id, file) ==
  {[id |-> id, filename |-> file.name,
    pages |-> [p \in 1..file.numPages |-> [pageNumber |-> p, measures |-> <<>>]],
    globalKey |-> [tonic |-> "G", mode |-> "major", signature |-> 1],
    modulations |-> <<>>,
    chordProgression |-> [romanNumerals |-> <<>>],
    status |-> "completed"],
   [id |-> id, filename |-> file.name,
    pages |-> <<>>,
    globalKey |-> [tonic |-> "C", mode |-> "major", signature |-> 0],
    modulations |-> <<>>,
    chordProgression |-> [romanNumerals |-> <<>>],
    status |-> "completed"],
   [id |-> id, filename |-> file.name,
    pages |-> << [pageNumber |-> 1,
                  measures |-> << [number |-> 1,
                                   chords |-> << [symbol |-> "C", romanNumeral |-> <<"I">>],
                                                 [symbol |-> "G", romanNumeral |-> <<"V">>],
                                                 [symbol |-> "Am", romanNumeral |-> <<"v", "i">>],
                                                 [symbol |-> "F", romanNumeral |-> <<"I", "V">>] >>] >>] >>,
    globalKey |-> [tonic |-> "C", mode |-> "major", signature |-> 0],
    modulations |-> <<>>,
    chordProgression |-> [romanNumerals |-> << <<"I">>, <<"V">>, <<"v", "i">>, <<"I", "V">> >>],
    status |-> "completed"]}

maxAttempts == 60

uiStore == <<currentPage, scale, hoverTarget, selectedMeasure, showSidebar>>
budgets == <<uploadsLeft, pollsLeft, uiEventsLeft>>

Uploads == 1..Len(uploads)
At(u, where) == u \in Uploads /\ uploads[u].pc = where

(***************************************************************************)
(* UploadScreen.handleFile, one action per stretch between two awaits or   *)
(* timers.  pc of an upload: "uploading" (uploadPdf in flight),            *)
(* "pollTimer" (setTimeout(pollAnalysis) pending), "polling" (getAnalysis  *)
(* in flight), "mockTimer" (the fallback's setTimeout pending), "done"     *)
(* (the chain delivered an analysis), "rejected" (pollAnalysis threw).     *)
(***************************************************************************)
\* handleFile up to `await uploadPdf(file)`.  UploadScreen is rendered only
\* while pdfUrl is null (App).
handleFile(file) ==
  /\ pdfUrl = Null
  /\ uploadsLeft > 0
  /\ IF file.type # pdfType
       THEN UNCHANGED vars
       ELSE /\ pdfFile' = file
            /\ pdfUrl' = [blob |-> file.name]
            /\ isAnalyzing' = TRUE
            /\ uploads' = Append(uploads,
                 [file |-> file, pc |-> "uploading", attempts |-> 0,
                  setAnalysisCalls |-> 0, getAnalysisCalls |-> 0,
                  pendingPolls |-> 0])
            /\ uploadsLeft' = uploadsLeft - 1
            /\ UNCHANGED <<genVars, uiStore, totalPages, analysis, currentKey,
                           analysisProgress, documentLoaded, pollsLeft,
                           uiEventsLeft>>

\* uploadPdf resolved: setAnalysisProgress(0.2); setTimeout(pollAnalysis, 3000)
uploadPdfResolved(u) ==
  /\ At(u, "uploading")
  /\ analysisProgress' = 120
  /\ uploads' = [uploads EXCEPT ![u].pc = "pollTimer",
                                ![u].pendingPolls = @ + 1]
  /\ UNCHANGED <<genVars, uiStore, pdfFile, pdfUrl, totalPages, analysis,
                 currentKey, isAnalyzing, documentLoaded, budgets>>

\* uploadPdf rejected: the outer catch arms the fallback timer
uploadPdfRejected(u) ==
  /\ At(u, "uploading")
  /\ uploads' = [uploads EXCEPT ![u].pc = "mockTimer"]
  /\ UNCHANGED <<genVars, storeVars, documentLoaded, budgets>>

\* Mutant of mockFallback: the fallback installs the mock analysis and
\* leaves isAnalyzing as it is.
mockFallback_keepsAnalyzing(u) ==
  /\ At(u, "mockTimer")
  /\ \E rnd \in RandomDraws :
       LET mockAnalysis == generateMockAnalysis(uploads[u].file.name, rnd, now)
       IN /\ setAnalysis(mockAnalysis)
          /\ totalPages' = Len(mockAnalysis.pages)
  /\ uploads' = [uploads EXCEPT ![u].pc = "done",
                                ![u].setAnalysisCalls = @ + 1]
  /\ UNCHANGED <<genVars, uiStore, pdfFile, pdfUrl, analysisProgress,
                 isAnalyzing, documentLoaded, budgets>>

\* the fallback timer fires: generateMockAnalysis(file.name), setAnalysis,
\* setTotalPages(mockAnalysis.pages.length), setIsAnalyzing(false)
mockFallback(u) ==
  /\ At(u, "mockTimer")
  /\ \E rnd \in RandomDraws :
       LET mockAnalysis == generateMockAnalysis(uploads[u].file.name, rnd, now)
       IN /\ setAnalysis(mockAnalysis)
          /\ totalPages' = Len(mockAnalysis.pages)
  /\ isAnalyzing' = FALSE
  /\ uploads' = [uploads EXCEPT ![u].pc = "done",
                                ![u].setAnalysisCalls = @ + 1]
  /\ UNCHANGED <<genVars, uiStore, pdfFile, pdfUrl, analysisProgress,
                 documentLoaded, budgets>>

\* a poll timer fires: pollAnalysis calls getAnalysis(id)
pollAnalysis(u) ==
  /\ At(u, "pollTimer")
  /\ pollsLeft # 0
  /\ pollsLeft' = IF pollsLeft > 0 THEN pollsLeft - 1 ELSE pollsLeft
  /\ uploads' = [uploads EXCEPT ![u].pc = "polling",
                                ![u].getAnalysisCalls = @ + 1]
  /\ UNCHANGED <<genVars, storeVars, documentLoaded, uploadsLeft, uiEventsLeft>>

\* Mutant of getAnalysisCompleted: the `return` after a completed result is
\* missing and the next poll is armed.
getAnalysisCompleted_noReturn(u, res) ==
  /\ At(u, "polling")
  /\ res \in BackendResults(u, uploads[u].file)
  /\ setAnalysis(res)
  /\ totalPages' = IF "pages" \in DOMAIN res /\ Len(res.pages) # 0
                     THEN Len(res.pages) ELSE 1
  /\ isAnalyzing' = FALSE
  /\ uploads' = [uploads EXCEPT ![u].pc = "pollTimer",
                                ![u].setAnalysisCalls = @ + 1]
  /\ UNCHANGED <<genVars, uiStore, pdfFile, pdfUrl, analysisProgress,
                 documentLoaded, budgets>>

\* getAnalysis resolved with status 'completed': setAnalysis(result),
\* setTotalPages(result.pages?.length || 1), setIsAnalyzing(false), return
getAnalysisCompleted(u, res) ==
  /\ At(u, "polling")
  /\ res \in BackendResults(u, uploads[u].file)
  /\ setAnalysis(res)
  /\ totalPages' = IF "pages" \in DOMAIN res /\ Len(res.pages) # 0
                     THEN Len(res.pages) ELSE 1
  /\ isAnalyzing' = FALSE
  /\ uploads' = [uploads EXCEPT ![u].pc = "done",
                                ![u].setAnalysisCalls = @ + 1,
                                ![u].pendingPolls = @ - 1]
  /\ UNCHANGED <<genVars, uiStore, pdfFile, pdfUrl, analysisProgress,
                 documentLoaded, budgets>>

\* Mutant of catchBlock: the catch block re-arms the poll without counting
\* the failed attempt.
catchBlock_noCount(u, attemptsSoFar) ==
  uploads' = [uploads EXCEPT
                ![u].attempts = attemptsSoFar,
                ![u].pc = IF attemptsSoFar < maxAttempts
                            THEN "pollTimer" ELSE "rejected",
                ![u].pendingPolls = IF attemptsSoFar < maxAttempts
                                      THEN @ ELSE @ - 1]

\* The catch block of pollAnalysis, entered with the attempts counted so
\* far: attempts++, then the next poll or the rethrow.  pendingPolls
\* counts the polls of the upload that are armed or in flight: this one
\* ends, and setTimeout arms the next.
catchBlock(u, attemptsSoFar) ==
  uploads' = [uploads EXCEPT
                ![u].attempts = attemptsSoFar + 1,
                ![u].pc = IF attemptsSoFar + 1 < maxAttempts
                            THEN "pollTimer" ELSE "rejected",
                ![u].pendingPolls = IF attemptsSoFar + 1 < maxAttempts
                                      THEN @ ELSE @ - 1]

\* getAnalysis resolved with status 'error': throw inside the try, caught
\* by the catch block of pollAnalysis
getAnalysisError(u) ==
  /\ At(u, "polling")
  /\ catchBlock(u, uploads[u].attempts)
  /\ UNCHANGED <<genVars, storeVars, documentLoaded, budgets>>

\* getAnalysis rejected (404, network): the catch block
getAnalysisRejected(u) ==
  /\ At(u, "polling")
  /\ catchBlock(u, uploads[u].attempts)
  /\ UNCHANGED <<genVars, storeVars, documentLoaded, budgets>>

\* getAnalysis resolved with status 'pending' or 'processing': attempts++;
\* below maxAttempts the progress is set and the next poll armed, else
\* 'Analysis timed out' is thrown into the catch block
getAnalysisPending(u) ==
  /\ At(u, "polling")
  /\ IF uploads[u].attempts + 1 < maxAttempts
       THEN /\ analysisProgress' = 120 + (uploads[u].attempts + 1) * 7
            /\ uploads' = [uploads EXCEPT ![u].attempts = @ + 1,
                                          ![u].pc = "pollTimer"]
       ELSE /\ catchBlock(u, uploads[u].attempts + 1)
            /\ UNCHANGED analysisProgress
  /\ UNCHANGED <<genVars, uiStore, pdfFile, pdfUrl, totalPages, analysis,
                 currentKey, isAnalyzing, documentLoaded, budgets>>

(***************************************************************************)
(* PDFViewer: closing the document and the document's load event.          *)
(***************************************************************************)
\* handleReset, confirmed: reset().  PDFViewer is rendered while pdfUrl is
\* set; with pdfUrl null it is unmounted and its Document with it.
handleReset ==
  /\ pdfUrl # Null
  /\ reset
  /\ documentLoaded' = FALSE
  /\ UNCHANGED <<genVars, uploads, budgets>>

\* onDocumentLoadSuccess({ numPages }): setTotalPages(numPages)
onDocumentLoadSuccess ==
  /\ pdfUrl # Null
  /\ ~documentLoaded
  /\ totalPages' = pdfFile.numPages
  /\ documentLoaded' = TRUE
  /\ UNCHANGED <<genVars, uiStore, pdfFile, pdfUrl, analysis, currentKey,
                 isAnalyzing, analysisProgress, uploads, budgets>>

\* One document, polled as long as the code polls it.
InitApp ==
  /\ filename = "a.pdf"
  /\ now = 0
  /\ result = NoResult
  /\ InitStore
  /\ uploadsLeft = 1
  /\ pollsLeft = -1
  /\ uiEventsLeft = 0

\* Documents opened one after the other, the earlier ones' callbacks still
\* pending.
InitRace ==
  /\ filename = "a.pdf"
  /\ now = 0
  /\ result = NoResult
  /\ InitStore
  /\ uploadsLeft = MaxUploads
  /\ pollsLeft = MaxPolls
  /\ uiEventsLeft = 0

UploadStep(u) ==
  \/ uploadPdfResolved(u)
  \/ uploadPdfRejected(u)
  \/ mockFallback(u)
  \/ pollAnalysis(u)
  \/ \E res \in BackendResults(u, uploads[u].file) : getAnalysisCompleted(u, res)
  \/ getAnalysisError(u)
  \/ getAnalysisRejected(u)
  \/ getAnalysisPending(u)

NextApp ==
  \/ \E file \in AppFiles : handleFile(file)
  \/ \E u \in Uploads : UploadStep(u)
  \/ handleReset
  \/ onDocumentLoadSuccess

SpecApp == InitApp /\ [][NextApp]_vars

SpecRace == InitRace /\ [][NextApp]_vars

\* SpecApp with the one scheduling fact the fallback relies on: a timer
\* armed with setTimeout fires.
SpecAppFair ==
  InitApp /\ [][NextApp]_vars /\ WF_vars(\E u \in Uploads : mockFallback(u))

(***************************************************************************)
(* The UI handlers of PDFViewer, Overlay, Sidebar and App.  scale is in    *)
(* hundredths (1.0 is 100, a zoom step 25).  The measures, chords and      *)
(* progression entries a user points at are those at the positions         *)
(* UiPositions of their lists.                                             *)
(***************************************************************************)
UiPositions == {1, 2, 16}

\* What a UI handler never touches: the upload closures, the document and
\* the store fields of the upload chain; it takes one UI event.
UiFrame ==
  /\ uiEventsLeft > 0
  /\ uiEventsLeft' = uiEventsLeft - 1
  /\ UNCHANGED <<genVars, uploads, documentLoaded, uploadsLeft, pollsLeft,
                 pdfFile, pdfUrl, totalPages, currentKey, isAnalyzing,
                 analysisProgress>>

\* PDFViewer is mounted (App: pdfUrl is set)
ViewerMounted == pdfUrl # Null

\* analysis?.pages.find(p => p.pageNumber === currentPage), as the set of
\* positions of the first match (empty: undefined)
pageAnalysisAt ==
  IF analysis = Null THEN {}
  ELSE {p \in 1..Len(analysis.pages) :
          /\ analysis.pages[p].pageNumber = currentPage
          /\ \A q \in 1..(p - 1) : analysis.pages[q].pageNumber # currentPage}

\* Overlay is rendered: inside the loaded Document, pageAnalysis && !isAnalyzing
OverlayShown(p) ==
  ViewerMounted /\ documentLoaded /\ ~isAnalyzing /\ p \in pageAnalysisAt

\* the modulations PDFViewer passes to Overlay for page p
shownModulations(p) ==
  LET ms == analysis.pages[p].measures
      first == IF Len(ms) > 0 THEN ms[1].number ELSE 1
      last == IF Len(ms) > 0 THEN ms[Len(ms)].number ELSE 1
  IN {i \in 1..Len(analysis.modulations) :
        /\ analysis.modulations[i].measureNumber >= first
        /\ analysis.modulations[i].measureNumber <= last}

pointer == [x |-> 0, y |-> 0]

\* setScale: Math.max(0.5, Math.min(3, scale))
setScale(sc) ==
  scale' = IF sc > 300 THEN 300 ELSE IF sc < 50 THEN 50 ELSE sc

handlePrevPage ==
  /\ ViewerMounted
  /\ currentPage' = IF currentPage - 1 > 1 THEN currentPage - 1 ELSE 1
  /\ UNCHANGED <<analysis, scale, hoverTarget, selectedMeasure, showSidebar>>
  /\ UiFrame

handleNextPage ==
  /\ ViewerMounted
  /\ currentPage' = IF currentPage + 1 < totalPages THEN currentPage + 1
                    ELSE totalPages
  /\ UNCHANGED <<analysis, scale, hoverTarget, selectedMeasure, showSidebar>>
  /\ UiFrame

handleZoomIn ==
  /\ ViewerMounted
  /\ setScale(scale + 25)
  /\ UNCHANGED <<analysis, currentPage, hoverTarget, selectedMeasure, showSidebar>>
  /\ UiFrame

handleZoomOut ==
  /\ ViewerMounted
  /\ setScale(scale - 25)
  /\ UNCHANGED <<analysis, currentPage, hoverTarget, selectedMeasure, showSidebar>>
  /\ UiFrame

toggleSidebar ==
  /\ ViewerMounted
  /\ showSidebar' = ~showSidebar
  /\ UNCHANGED <<analysis, currentPage, scale, hoverTarget, selectedMeasure>>
  /\ UiFrame

\* setHoverTarget(target) with the rest of the UI state left alone
setHoverTarget(target) ==
  /\ hoverTarget' = target
  /\ UNCHANGED <<analysis, currentPage, scale, selectedMeasure, showSidebar>>

handleChordHover(p, m, c) ==
  /\ OverlayShown(p)
  /\ m \in 1..Len(analysis.pages[p].measures)
  /\ c \in 1..Len(analysis.pages[p].measures[m].chords)
  /\ setHoverTarget([type |-> "chord",
                     data |-> analysis.pages[p].measures[m].chords[c],
                     position |-> pointer])
  /\ UiFrame

handleMeasureHover(p, m) ==
  /\ OverlayShown(p)
  /\ m \in 1..Len(analysis.pages[p].measures)
  /\ setHoverTarget([type |-> "measure",
                     data |-> analysis.pages[p].measures[m],
                     position |-> pointer])
  /\ UiFrame

handleModulationHover(p, i) ==
  /\ OverlayShown(p)
  /\ i \in shownModulations(p)
  /\ setHoverTarget([type |-> "modulation",
                     data |-> analysis.modulations[i],
                     position |-> pointer])
  /\ UiFrame

handleMouseLeave(p) ==
  /\ OverlayShown(p)
  /\ setHoverTarget(Null)
  /\ UiFrame

\* App.handleKeyDown, Escape
handleKeyDown ==
  /\ ViewerMounted
  /\ setHoverTarget(Null)
  /\ UiFrame

\* Mutant of handleMeasureClick: selecting a measure also rewrites the
\* stored analysis (marks it pending).
handleMeasureClick_touchesAnalysis(p, m) ==
  /\ OverlayShown(p)
  /\ m \in 1..Len(analysis.pages[p].measures)
  /\ LET measureNumber == analysis.pages[p].measures[m].number
     IN selectedMeasure' = IF selectedMeasure = [number |-> measureNumber]
                             THEN Null ELSE [number |-> measureNumber]
  /\ analysis' = [analysis EXCEPT !.status = "pending"]
  /\ UNCHANGED <<currentPage, scale, hoverTarget, showSidebar>>
  /\ UiFrame

\* Overlay.handleMeasureClick(measure.number)
handleMeasureClick(p, m) ==
  /\ OverlayShown(p)
  /\ m \in 1..Len(analysis.pages[p].measures)
  /\ LET measureNumber == analysis.pages[p].measures[m].number
     IN selectedMeasure' = IF selectedMeasure = [number |-> measureNumber]
                             THEN Null ELSE [number |-> measureNumber]
  /\ UNCHANGED <<analysis, currentPage, scale, hoverTarget, showSidebar>>
  /\ UiFrame

\* Sidebar: the onClick of the progression button idx (0-based);
\* Math.ceil((idx + 1) / 16) is (idx + 16) \div 16
progressionClick(idx) ==
  /\ ViewerMounted /\ showSidebar /\ analysis # Null
  /\ idx + 1 \in 1..Len(analysis.chordProgression.romanNumerals)
  /\ selectedMeasure' = [number |-> idx + 1]
  /\ currentPage' = (idx + 16) \div 16
  /\ UNCHANGED <<analysis, scale, hoverTarget, showSidebar>>
  /\ UiFrame

UiStep ==
  \/ handlePrevPage
  \/ handleNextPage
  \/ handleZoomIn
  \/ handleZoomOut
  \/ toggleSidebar
  \/ handleKeyDown
  \/ \E p \in pageAnalysisAt :
        \/ handleMouseLeave(p)
        \/ \E i \in shownModulations(p) : handleModulationHover(p, i)
        \/ \E m \in UiPositions :
              \/ handleMeasureHover(p, m)
              \/ handleMeasureClick(p, m)
              \/ handleChordHover(p, m, 1)
  \/ \E k \in UiPositions : progressionClick(k - 1)

\* One document, a few polls, a few UI events.
InitUI ==
  /\ filename = "a.pdf"
  /\ now = 0
  /\ result = NoResult
  /\ InitStore
  /\ uploadsLeft = 1
  /\ pollsLeft = MaxPolls
  /\ uiEventsLeft = MaxUiEvents

NextUI == NextApp \/ UiStep

SpecUI == InitUI /\ [][NextUI]_vars

(***************************************************************************)
(* Vocabulary of the properties                                            *)
(***************************************************************************)
RECURSIVE Flatten(_)
Flatten(ss) == IF ss = <<>> THEN <<>> ELSE Head(ss) \o Flatten(Tail(ss))

\* All measures of a result in page order and measure order, and all its
\* chords in page, measure and chord order.
MeasuresOf(r) == Flatten([p \in 1..Len(r.pages) |-> r.pages[p].measures])
ChordsOf(r) ==
  Flatten([k \in 1..Len(MeasuresOf(r)) |-> MeasuresOf(r)[k].chords])

Produced == result # NoResult

PitchClass(name) ==
  CASE name = "C" -> 0 [] name = "D" -> 2 [] name = "E" -> 4 [] name = "F" -> 5
    [] name = "G" -> 7 [] name = "A" -> 9 [] name = "B" -> 11

\* interval(a, b): from a up to b, mod 12
Interval(a, b) == (PitchClass(b) - PitchClass(a) + 12) % 12

ScaleSteps(mode) ==
  IF mode = "major" THEN {0, 2, 4, 5, 7, 9, 11} ELSE {0, 2, 3, 5, 7, 8, 10}

Diatonic(note, key) == Interval(key.tonic, note) \in ScaleSteps(key.mode)

Mentions(text, word) == \E k \in 1..Len(text) : text[k] = word

\* The chord a reasoning text names: the word before "major chord".
NamedChordRoots(text) ==
  {text[k] : k \in {j \in 1..(Len(text) - 2) :
                      text[j + 1] = "major" /\ text[j + 2] = "chord"}}

(***************************************************************************)
(* C1: two runs of generateMockAnalysis on the same input yield identical  *)
(* AnalysisResult values (id and every confidence included): a run that    *)
(* follows a run on the same file name produces the same value.            *)
(***************************************************************************)
C1_Deterministic ==
  [][(result # NoResult /\ result' # NoResult
        /\ result'.filename = result.filename) => result' = result]_vars

(***************************************************************************)
(* C2: every Modulation m is reported where the local key changes and      *)
(* persists: the measure numbered m.measureNumber has localKey m.toKey,    *)
(* the measure before it has localKey m.fromKey # m.toKey, and the next    *)
(* measure has localKey m.toKey too (at least 2 consecutive measures).     *)
(***************************************************************************)
C2_ModulationAtKeyChange ==
  Produced =>
    \A i \in 1..Len(result.modulations) :
      LET m == result.modulations[i]
          ms == MeasuresOf(result)
      IN \E k \in 2..(Len(ms) - 1) :
            /\ ms[k].number = m.measureNumber
            /\ ms[k].localKey = m.toKey
            /\ ms[k - 1].localKey = m.fromKey
            /\ m.fromKey # m.toKey
            /\ ms[k + 1].localKey = m.toKey

(***************************************************************************)
(* C3: for a piece that moves from C major to G major with a chord on G    *)
(* at the boundary (within the 2 measures before it), the result holds     *)
(* exactly one Modulation, its pivotChord is that G major chord, the one   *)
(* the reasoning names, and the reasoning mentions "V" and "I".            *)
(***************************************************************************)
MovesFromCToG(r) ==
  \E i \in 1..Len(r.modulations) :
    LET m == r.modulations[i]
    IN /\ m.fromKey.tonic = "C" /\ m.fromKey.mode = "major"
       /\ m.toKey.tonic = "G" /\ m.toKey.mode = "major"
       /\ \E k \in 1..Len(MeasuresOf(r)) :
            LET msr == MeasuresOf(r)[k]
            IN /\ msr.number \in (m.measureNumber - 2)..m.measureNumber
               /\ \E c \in 1..Len(msr.chords) :
                    /\ msr.chords[c].root = "G"
                    /\ Interval("G", msr.chords[c].notes[2]) = 4

C3_PivotIsBoundaryGChord ==
  (Produced /\ MovesFromCToG(result)) =>
    /\ Len(result.modulations) = 1
    /\ result.modulations[1].pivotChord.root = "G"
    /\ result.modulations[1].pivotChord.root
         \in NamedChordRoots(result.modulations[1].reasoning)
    /\ Mentions(result.modulations[1].reasoning, "V")
    /\ Mentions(result.modulations[1].reasoning, "I")

(***************************************************************************)
(* C4: hysteresis. No Modulation of a produced result has a measureNumber  *)
(* among the first 2 measures of the piece, and no two Modulations with    *)
(* the same toKey have immediately consecutive measureNumbers.             *)
(***************************************************************************)
C4_Hysteresis ==
  Produced =>
    LET mods == result.modulations
        ms == MeasuresOf(result)
    IN /\ \A i \in 1..Len(mods) : \A k \in 1..Len(ms) :
            (k <= 2) => mods[i].measureNumber # ms[k].number
       /\ \A i \in 1..Len(mods) : \A j \in 1..Len(mods) :
            (i # j /\ mods[i].toKey = mods[j].toKey) =>
               /\ mods[i].measureNumber # mods[j].measureNumber + 1
               /\ mods[j].measureNumber # mods[i].measureNumber + 1

\* A produced result that reports a modulation, past the first 2 measures.
C4_Witness ==
  /\ Produced
  /\ Len(result.modulations) >= 1
  /\ result.modulations[1].measureNumber > MeasuresOf(result)[2].number

(***************************************************************************)
(* C5: a Modulation's pivotChord is a chord of a measure at most 2         *)
(* measures before the modulation's measureNumber, and all of its notes    *)
(* are diatonic in both fromKey and toKey.                                 *)
(***************************************************************************)
C5_PivotChordValid ==
  Produced =>
    \A i \in 1..Len(result.modulations) :
      LET m == result.modulations[i]
          ms == MeasuresOf(result)
      IN ("pivotChord" \in DOMAIN m) =>
           /\ \E k \in 1..Len(ms) :
                /\ \E c \in 1..Len(ms[k].chords) : ms[k].chords[c] = m.pivotChord
                /\ ms[k].number <= m.measureNumber
                /\ ms[k].number >= m.measureNumber - 2
           /\ \A n \in 1..Len(m.pivotChord.notes) :
                /\ Diatonic(m.pivotChord.notes[n], m.fromKey)
                /\ Diatonic(m.pivotChord.notes[n], m.toKey)

\* A produced result whose modulation carries a pivot chord with notes.
C5_Witness ==
  /\ Produced
  /\ \E i \in 1..Len(result.modulations) :
        /\ "pivotChord" \in DOMAIN result.modulations[i]
        /\ Len(result.modulations[i].pivotChord.notes) >= 3
        /\ result.modulations[i].fromKey # result.modulations[i].toKey

(***************************************************************************)
(* C6: the modulation list is in ascending measureNumber order and is a    *)
(* key chain: the first fromKey is the local key of the first measure,     *)
(* each later fromKey is the previous toKey, and no modulation has         *)
(* fromKey = toKey.                                                        *)
(***************************************************************************)
C6_ModulationKeyChain ==
  Produced =>
    LET mods == result.modulations
        ms == MeasuresOf(result)
    IN /\ \A i \in 1..(Len(mods) - 1) :
            /\ mods[i].measureNumber < mods[i + 1].measureNumber
            /\ mods[i + 1].fromKey = mods[i].toKey
       /\ (Len(mods) >= 1 /\ Len(ms) >= 1) => mods[1].fromKey = ms[1].localKey
       /\ \A i \in 1..Len(mods) : mods[i].fromKey # mods[i].toKey

\* A produced result with measures and a modulation leaving the opening key.
C6_Witness ==
  /\ Produced
  /\ Len(MeasuresOf(result)) >= 1
  /\ Len(result.modulations) >= 1
  /\ result.modulations[1].fromKey = MeasuresOf(result)[1].localKey
  /\ result.modulations[1].toKey.tonic = "G"

(***************************************************************************)
(* C7: chordProgression.romanNumerals is exactly the sequence of the       *)
(* romanNumeral values of all chords in page, measure and chord order.     *)
(***************************************************************************)
C7_ProgressionMatchesChords ==
  Produced =>
    result.chordProgression.romanNumerals =
      [k \in 1..Len(ChordsOf(result)) |-> ChordsOf(result)[k].romanNumeral]

\* A produced result with 16 chords, not all with the same numeral.
C7_Witness ==
  /\ Produced
  /\ Len(ChordsOf(result)) = numMeasures
  /\ \E j, k \in 1..Len(ChordsOf(result)) :
        ChordsOf(result)[j].romanNumeral # ChordsOf(result)[k].romanNumeral

(***************************************************************************)
(* C8: every chord whose measure's local key is major has the tonal        *)
(* function of the degree table for the scale degree of its root:          *)
(* I tonic, ii predominant, IV predominant, V dominant, vi tonic,          *)
(* vii dominant.                                                           *)
(***************************************************************************)
\* Semitones above the tonic of the degrees the table names, major key.
DegreeFunction(semitones) ==
  CASE semitones = 0 -> "tonic"
    [] semitones = 2 -> "predominant"
    [] semitones = 5 -> "predominant"
    [] semitones = 7 -> "dominant"
    [] semitones = 9 -> "tonic"
    [] semitones = 11 -> "dominant"

C8_FunctionFollowsDegree ==
  Produced =>
    \A k \in 1..Len(MeasuresOf(result)) :
      LET msr == MeasuresOf(result)[k]
      IN (msr.localKey.mode = "major") =>
           \A c \in 1..Len(msr.chords) :
             LET d == Interval(msr.localKey.tonic, msr.chords[c].root)
             IN (d \in {0, 2, 5, 7, 9, 11}) =>
                  msr.chords[c].function = DegreeFunction(d)

\* A produced result with chords on the degrees I, ii, IV, V and vi of
\* measures in a major key.
C8_Witness ==
  /\ Produced
  /\ \A d \in {0, 2, 5, 7, 9} :
        \E k \in 1..Len(MeasuresOf(result)) :
          LET msr == MeasuresOf(result)[k]
          IN /\ msr.localKey.mode = "major"
             /\ \E c \in 1..Len(msr.chords) :
                  Interval(msr.localKey.tonic, msr.chords[c].root) = d

(***************************************************************************)
(* C9: every chord's romanNumeral is built from its root and quality       *)
(* relative to the local key of its measure: its numeral letters spell     *)
(* the scale degree of the interval from the tonic to the root, in upper   *)
(* case for major-quality chords and in lower case for minor-quality       *)
(* chords, and seventh chords carry a suffix with the figure 7.            *)
(***************************************************************************)
UpperLetters == {"I", "V"}
LowerLetters == {"i", "v"}

\* Length of the numeral part: the longest prefix made of numeral letters.
NumeralLen(rn) ==
  CHOOSE n \in 0..Len(rn) :
    /\ \A k \in 1..n : rn[k] \in UpperLetters \cup LowerLetters
    /\ (n < Len(rn)) => rn[n + 1] \notin UpperLetters \cup LowerLetters

NumeralPart(rn) == SubSeq(rn, 1, NumeralLen(rn))
SuffixPart(rn) == SubSeq(rn, NumeralLen(rn) + 1, Len(rn))

ToUpper(ch) == CASE ch = "i" -> "I" [] ch = "v" -> "V" [] OTHER -> ch
UpperCased(letters) == [k \in 1..Len(letters) |-> ToUpper(letters[k])]

\* The numeral of the diatonic degree that lies the given semitones above
\* the tonic.
DegreeNumeral(semitones) ==
  CASE semitones = 0 -> <<"I">>
    [] semitones = 2 -> <<"I", "I">>
    [] semitones = 4 -> <<"I", "I", "I">>
    [] semitones = 5 -> <<"I", "V">>
    [] semitones = 7 -> <<"V">>
    [] semitones = 9 -> <<"V", "I">>
    [] semitones = 11 -> <<"V", "I", "I">>

MajorQualities == {"maj", "7", "maj7"}
MinorQualities == {"m", "m7"}
SeventhQualities == {"7", "m7", "maj7"}

NumeralBuiltFrom(c, key) ==
  LET d == Interval(key.tonic, c.root)
      num == NumeralPart(c.romanNumeral)
      suf == SuffixPart(c.romanNumeral)
  IN /\ d \in ScaleSteps("major")
     /\ UpperCased(num) = DegreeNumeral(d)
     /\ (c.quality \in MajorQualities) =>
           \A k \in 1..Len(num) : num[k] \in UpperLetters
     /\ (c.quality \in MinorQualities) =>
           \A k \in 1..Len(num) : num[k] \in LowerLetters
     /\ (c.quality \in SeventhQualities) =>
           \E k \in 1..Len(suf) : suf[k] = "7"

C9_RomanNumeralFromRootAndQuality ==
  Produced =>
    \A k \in 1..Len(MeasuresOf(result)) :
      LET msr == MeasuresOf(result)[k]
      IN \A c \in 1..Len(msr.chords) :
           NumeralBuiltFrom(msr.chords[c], msr.localKey)

\* A produced result with a major, a minor and a seventh chord.
C9_Witness ==
  /\ Produced
  /\ \E k \in 1..Len(ChordsOf(result)) : ChordsOf(result)[k].quality = "maj"
  /\ \E k \in 1..Len(ChordsOf(result)) : ChordsOf(result)[k].quality = "m"
  /\ \E k \in 1..Len(ChordsOf(result)) :
        ChordsOf(result)[k].quality \in SeventhQualities

(***************************************************************************)
(* C10: every ChordAnalysis of a produced result (in a measure's chords    *)
(* and in its beats) has a confidence between 0 and 1 inclusive            *)
(* (0..100000 in units of 1/100000).                                       *)
(***************************************************************************)
InUnitInterval(conf) == conf >= 0 /\ conf <= 100000

C10_ConfidenceInUnitInterval ==
  Produced =>
    \A k \in 1..Len(MeasuresOf(result)) :
      LET msr == MeasuresOf(result)[k]
      IN /\ \A c \in 1..Len(msr.chords) : InUnitInterval(msr.chords[c].confidence)
         /\ \A b \in 1..Len(msr.beats) :
              ("chord" \in DOMAIN msr.beats[b]) =>
                 InUnitInterval(msr.beats[b].chord.confidence)

\* A produced result in which Math.random() returned its largest sampled
\* value for one chord and its smallest for another.
C10_Witness ==
  /\ Produced
  /\ \E j, k \in 1..Len(ChordsOf(result)) :
        /\ ChordsOf(result)[j].confidence = 85000
        /\ ChordsOf(result)[k].confidence = 99985

(***************************************************************************)
(* C11: every Key of a produced result (globalKey, each localKey, each     *)
(* modulation's fromKey and toKey) carries the signature the standard      *)
(* key-signature rule gives for its (tonic, mode), and two Keys with equal *)
(* tonic and mode never carry different signatures.                        *)
(***************************************************************************)
\* Sharps (+) or flats (-) of the major key on a pitch class: its position
\* on the circle of fifths, taken in -5..6.
FifthsOf(pc) == IF (pc * 7) % 12 > 6 THEN ((pc * 7) % 12) - 12 ELSE (pc * 7) % 12

\* A minor key has the signature of its relative major, 3 semitones up.
StandardSignature(tonic, mode) ==
  IF mode = "major" THEN FifthsOf(PitchClass(tonic))
  ELSE FifthsOf((PitchClass(tonic) + 3) % 12)

KeysOf(r) ==
  {r.globalKey}
    \cup {MeasuresOf(r)[k].localKey : k \in 1..Len(MeasuresOf(r))}
    \cup {r.modulations[i].fromKey : i \in 1..Len(r.modulations)}
    \cup {r.modulations[i].toKey : i \in 1..Len(r.modulations)}

BoxesOf(r) ==
  {MeasuresOf(r)[k].boundingBox : k \in 1..Len(MeasuresOf(r))}
    \cup {ChordsOf(r)[k].boundingBox : k \in 1..Len(ChordsOf(r))}
    \cup UNION {UNION {{MeasuresOf(r)[k].beats[b].notes[n].boundingBox :
                           n \in 1..Len(MeasuresOf(r)[k].beats[b].notes)} :
                       b \in 1..Len(MeasuresOf(r)[k].beats)} :
                  k \in 1..Len(MeasuresOf(r))}
    \cup UNION {{MeasuresOf(r)[k].beats[b].chord.boundingBox :
                    b \in {c \in 1..Len(MeasuresOf(r)[k].beats) :
                             "chord" \in DOMAIN MeasuresOf(r)[k].beats[c]}} :
                  k \in 1..Len(MeasuresOf(r))}
    \cup {r.modulations[i].boundingBox : i \in 1..Len(r.modulations)}

NormalizedBox(box) ==
  /\ box.x >= 0 /\ box.x <= 100
  /\ box.y >= 0 /\ box.y <= 100
  /\ box.width > 0 /\ box.width <= 100
  /\ box.height > 0 /\ box.height <= 100

C12_BoxesNormalized == Produced => \A box \in BoxesOf(result) : NormalizedBox(box)

\* A produced result with a box in the last column and one in the last row.
C12_Witness ==
  /\ Produced
  /\ \E b1, b2 \in BoxesOf(result) : b1.x >= 72 /\ b2.y >= 69

(***************************************************************************)
(* C13: every chord's boundingBox is the union of the boxes of the notes   *)
(* of the beat that holds the chord: the smallest axis-aligned box that    *)
(* contains them all.                                                      *)
(***************************************************************************)
Min(S) == CHOOSE m \in S : \A o \in S : m <= o
Max(S) == CHOOSE m \in S : \A o \in S : m >= o

UnionBox(notes) ==
  LET left == Min({notes[n].boundingBox.x : n \in 1..Len(notes)})
      top == Min({notes[n].boundingBox.y : n \in 1..Len(notes)})
      right == Max({notes[n].boundingBox.x + notes[n].boundingBox.width :
                      n \in 1..Len(notes)})
      bottom == Max({notes[n].boundingBox.y + notes[n].boundingBox.height :
                      n \in 1..Len(notes)})
  IN [x |-> left, y |-> top, width |-> right - left, height |-> bottom - top]

C13_ChordBoxIsUnionOfNotes ==
  Produced =>
    \A k \in 1..Len(MeasuresOf(result)) :
      \A b \in 1..Len(MeasuresOf(result)[k].beats) :
        LET beat == MeasuresOf(result)[k].beats[b]
        IN ("chord" \in DOMAIN beat /\ Len(beat.notes) > 0) =>
              beat.chord.boundingBox = UnionBox(beat.notes)

(***************************************************************************)
(* C14: within every page of a produced result the measure numbers are at  *)
(* least 1 and pairwise distinct.                                          *)
(***************************************************************************)
C14_MeasureNumbersUnique ==
  Produced =>
    \A p \in 1..Len(result.pages) :
      LET ms == result.pages[p].measures
      IN /\ \A k \in 1..Len(ms) : ms[k].number >= 1
         /\ \A j, k \in 1..Len(ms) : (j # k) => ms[j].number # ms[k].number

\* A produced result with a page of 16 measures, numbered from 1.
C14_Witness ==
  /\ Produced
  /\ \E p \in 1..Len(result.pages) :
        /\ Len(result.pages[p].measures) = numMeasures
        /\ result.pages[p].measures[1].number = 1
        /\ result.pages[p].measures[5].number = 5

(***************************************************************************)
(* The upload chain and the store                                          *)
(***************************************************************************)

\* a document is open and being analysed, before and after the step
DuringAnalysis == isAnalyzing /\ pdfUrl # Null /\ isAnalyzing' /\ pdfUrl' # Null

\* C15: between the acceptance of a file and the end of its analysis, the
\* values written to analysisProgress never decrease and stay within [0, 1]
\* (0..600 in six-hundredths), also while callbacks of an earlier upload
\* are still pending.
C15_ProgressMonotonic ==
  [][DuringAnalysis =>
       /\ analysisProgress' >= analysisProgress
       /\ analysisProgress' \in 0..600]_vars

\* C16: for each file accepted by handleFile, setAnalysis is called at most
\* once, on the completed poll result as on the mock fallback.
C16_AnalysisDeliveredOnce ==
  \A u \in Uploads : uploads[u].setAnalysisCalls <= 1

C16_Witness ==
  \E u \in Uploads :
     /\ uploads[u].setAnalysisCalls = 1
     /\ uploads[u].attempts > 0
     /\ uploads[u].pc = "done"
     /\ analysis # Null

\* C17: the analysis field changes only by setAnalysis (called by the
\* upload chain, which counts the call) and by reset (which also closes the
\* document); the page, zoom, hover, selection, sidebar and progress
\* actions and the UI handlers leave it, and every field in it, unchanged.
C17_AnalysisOnlyReplacedWholesale ==
  [][analysis' # analysis =>
       \/ \E u \in Uploads :
             uploads'[u].setAnalysisCalls = uploads[u].setAnalysisCalls + 1
       \/ analysis' = Null /\ pdfUrl' = Null /\ pdfUrl # Null]_vars

C17_Witness ==
  /\ analysis # Null
  /\ hoverTarget # Null
  /\ selectedMeasure # Null
  /\ uiEventsLeft = 0

\* nothing of the upload chain is pending: no request in flight, no timer
Settled ==
  /\ Uploads # {}
  /\ \A u \in Uploads : uploads[u].pc \in {"done", "rejected"}

\* C18: once every request has settled and every timer has fired,
\* isAnalyzing is false, whichever way the upload went.
C18_AnalysingStops == Settled => ~isAnalyzing

\* C19: while no document is open the store keeps its initial analysis,
\* currentKey, totalPages, isAnalyzing and analysisProgress, and an analysis
\* is only ever installed by the latest upload.
C19_ResetIsolatesUploads ==
  [][/\ pdfUrl' = Null =>
          /\ analysis' = Null
          /\ currentKey' = Null
          /\ totalPages' = 0
          /\ ~isAnalyzing'
          /\ analysisProgress' = 0
     /\ (analysis' # analysis /\ analysis' # Null) =>
          uploads'[Len(uploads')].setAnalysisCalls
            = uploads[Len(uploads')].setAnalysisCalls + 1]_vars

\* C20: after getAnalysis returned a result with status 'error', no further
\* getAnalysis call is scheduled for that upload.
C20_ErrorEndsPolling ==
  [][\A u \in Uploads :
       getAnalysisError(u) => uploads'[u].pc \notin {"pollTimer", "polling"}]_vars

\* C21: for one accepted upload getAnalysis is called at most maxAttempts
\* (60) times, whatever the answers were, and at most one poll of the
\* upload is armed or in flight at any time.
C21_PollingBounded ==
  \A u \in Uploads :
     /\ uploads[u].getAnalysisCalls <= maxAttempts
     /\ uploads[u].pendingPolls \in {0, 1}
     /\ uploads[u].pendingPolls = 1 <=> uploads[u].pc \in {"pollTimer", "polling"}

C21_Witness ==
  \E u \in Uploads :
     /\ uploads[u].getAnalysisCalls = maxAttempts
     /\ uploads[u].pc = "rejected"
     /\ uploads[u].pendingPolls = 0

\* the mock analysis of upload u is installed: analysis is a value of
\* generateMockAnalysis(file name), totalPages its page count, isAnalyzing
\* false
MockInstalled(u) ==
  /\ ~isAnalyzing
  /\ analysis # Null
  /\ totalPages = Len(analysis.pages)
  /\ \E rnd \in RandomDraws :
        analysis = generateMockAnalysis(uploads[u].file.name, rnd, now)

\* the n-th upload failed and its fallback timer is armed
FallbackArmed(n) == \E u \in Uploads : u = n /\ uploads[u].pc = "mockTimer"

\* the fallback of the n-th upload has run, and no poll ever did
FallbackDone(n) ==
  \E u \in Uploads :
     u = n /\ uploads[u].pc = "done" /\ uploads[u].getAnalysisCalls = 0

\* C22: if uploadPdf fails, the fallback timer eventually installs the mock
\* analysis (analysis is generateMockAnalysis(file name), totalPages its
\* page count, isAnalyzing false), and getAnalysis is never called for
\* that upload, before or after.
C22_MockInstalledOnUploadFailure ==
  /\ [][\A u \in Uploads :
          /\ uploads[u].pc = "mockTimer" =>
                /\ uploads'[u].getAnalysisCalls = 0
                /\ uploads'[u].pc \in {"mockTimer", "done"}
                /\ uploads'[u].pc = "done" => MockInstalled(u)'
          /\ (uploads[u].pc = "done" /\ uploads[u].getAnalysisCalls = 0) =>
                uploads'[u] = uploads[u]]_vars
  /\ \A n \in 1..MaxUploads :
        FallbackArmed(n) ~> FallbackDone(n)

C22_Witness ==
  \E u \in Uploads :
     /\ uploads[u].pc = "done"
     /\ uploads[u].getAnalysisCalls = 0
     /\ MockInstalled(u)

(***************************************************************************)
(* Navigation                                                              *)
(***************************************************************************)

\* C23: in every reachable state currentPage >= 1, and currentPage <=
\* totalPages whenever totalPages >= 1, under any sequence of previous and
\* next (buttons and arrow keys), progression clicks, document loads and
\* analysis arrivals.
C23_CurrentPageValid ==
  /\ currentPage >= 1
  /\ totalPages >= 1 => currentPage <= totalPages

\* For every chord of an analysis, in page, measure and chord order, the
\* page and the measure that hold it.
ChordPlaces(a) ==
  Flatten([p \in 1..Len(a.pages) |->
            Flatten([m \in 1..Len(a.pages[p].measures) |->
                      [c \in 1..Len(a.pages[p].measures[m].chords) |->
                         [pageNumber |-> a.pages[p].pageNumber,
                          number |-> a.pages[p].measures[m].number]]])])

\* the selected measure is one of the measures of the current page
SelectedOnCurrentPage ==
  \E p \in pageAnalysisAt :
     \E m \in 1..Len(analysis.pages[p].measures) :
        selectedMeasure = [number |-> analysis.pages[p].measures[m].number]

\* C24: a click on the k-th Roman numeral of the sidebar's progression
\* selects the measure that holds the k-th chord of the piece and makes the
\* page of that measure the current page, so that the selected measure is
\* found on the current page.
C24_ProgressionClickSelectsChordMeasure ==
  [][\A k \in UiPositions :
       progressionClick(k - 1) =>
         /\ k <= Len(ChordPlaces(analysis))
         /\ selectedMeasure' = [number |-> ChordPlaces(analysis)[k].number]
         /\ currentPage' = ChordPlaces(analysis)[k].pageNumber
         /\ SelectedOnCurrentPage']_vars
====
